---------------------------- MODULE Spec2Model ----------------------------
(***************************************************************************)
(* kp-fetch: downloads the GFZ "Kp and ap" nowcast, diffs it against the   *)
(* cached copy of the previous download and prints the new entries as      *)
(* InfluxDB line protocol.                                                 *)
(*                                                                         *)
(*   src/src/kp_data.rs   Entry, KpFile, get_new_entries                   *)
(*   src/src/influx.rs    Measurement, Value, escape                       *)
(*   src/src/main.rs      main, From<&Entry> for Measurement               *)
(*                                                                         *)
(* Five specifications share the module, one per unit:                     *)
(*   SpecParse    KpFile::from_str / Entry::from_str on a text             *)
(*   SpecDiff     KpFile::get_new_entries on two snapshots                 *)
(*   SpecEscape   escape on a string and five flags                        *)
(*   SpecMeas     the Measurement builder and to_line_protocol            *)
(*   Spec         main, run after run over one cache file                  *)
(***************************************************************************)
EXTENDS Integers, Sequences, FiniteSets, TLC

(***************************************************************************)
(* Bounds of the model.                                                    *)
(***************************************************************************)
MaxLines == 3       \* lines of a text handed to KpFile::from_str (SpecParse)
MaxLen == 3         \* entries of the current snapshot (SpecDiff)
MaxPrevLen == 2     \* entries of the previous snapshot (SpecDiff)
MaxDay == 3         \* distinct time bins (days of 2022-08) in snapshots and feeds
MaxStr == 2         \* characters of the string handed to escape (SpecEscape)
MaxCalls == 3       \* builder calls on one Measurement (SpecMeas)
MaxRuns == 3        \* runs of the program over one cache file (Spec)

VARIABLES
    \* SpecParse
    text,           \* the text handed to KpFile::from_str: a sequence of lines
    parsed,         \* its outcome (ok + KpFile, err + ParseError, panic), or NotRun
    \* SpecDiff
    current,        \* self of get_new_entries
    previous,       \* its argument
    newEntries,     \* its outcome, or NotRun
    \* SpecEscape
    escIn,          \* [value, equal, commas, spaces, double_quotes, str_escape]
    escOut,         \* the String escape returns, or NotRun
    \* SpecMeas
    meas,           \* the Measurement: [name, event_time, values, tags]
    hashOrder,      \* the iteration order HashMap's RandomState gives this process
    inserted,       \* history: field keys in the order they were first inserted
    lastCall,       \* history: the last builder call and the Measurement before it
    line,           \* the last to_line_protocol outputs of this Measurement
    \* Spec (main)
    pc,             \* position of main
    run,            \* number of runs started
    cPath,          \* TRUE when --cache-file is given (c_path is not empty)
    diag,           \* args.diagnostic_output, TRUE when --diagnostic-output is given
    con,            \* the downloaded text
    kp_file,        \* con parsed
    kp_cache,       \* the cache parsed, or KpFile::new()
    new_entries,    \* get_new_entries' slice
    out,            \* stdout of the current run
    cacheFile,      \* content of the cache file, or NoFile
    hist            \* history of the runs, see HistInit

varsParse == <<text, parsed>>
varsDiff == <<current, previous, newEntries>>
varsEscape == <<escIn, escOut>>
varsMeas == <<meas, hashOrder, inserted, lastCall, line>>
varsMain == <<pc, run, cPath, diag, con, kp_file, kp_cache, new_entries, out,
              cacheFile, hist>>
vars == <<varsParse, varsDiff, varsEscape, varsMeas, varsMain>>

NotRun == [st |-> "notrun"]

(***************************************************************************)
(* Generic helpers.                                                        *)
(***************************************************************************)
Range(s) == {s[i] : i \in 1..Len(s)}

SeqsUpTo(S, n) == UNION {[1..k -> S] : k \in 0..n}

Last(s) == s[Len(s)]

\* s[from..] of a Rust slice with 0-based index from
SliceFrom(s, from) == SubSeq(s, from + 1, Len(s))

(***************************************************************************)
(* Tokens of a line.  text.lines(), trim() and split_whitespace() leave a  *)
(* sequence of tokens per line; a token is kept by what the numeric        *)
(* parsers make of it:                                                     *)
(*   int   decimal integer v            ("2022", "7", "-1")                *)
(*   dec   decimal fraction, v = value * 100 ("19.50" is 1950)             *)
(*   nan   "NaN", which f32::from_str accepts                              *)
(*   word  anything no numeric parser accepts ("Foobar")                   *)
(*   hash  a token that starts with '#'                                    *)
(***************************************************************************)
TInt(n) == [k |-> "int", v |-> n]
TDec(c) == [k |-> "dec", v |-> c]
TNaN == [k |-> "nan", v |-> 0]
TWord == [k |-> "word", v |-> 0]
THash == [k |-> "hash", v |-> 0]

\* f32 values: NaN, or the value times 100 (the model's values are multiples
\* of 0.25, which f32 holds exactly)
F32(c) == [nan |-> FALSE, c |-> c]
NaN == [nan |-> TRUE, c |-> 0]

\* IEEE comparison: every comparison with NaN is false
F32Lt(a, b) == ~a.nan /\ ~b.nan /\ a.c < b.c
F32Ge(a, b) == ~a.nan /\ ~b.nan /\ a.c >= b.c

Ok(v) == [ok |-> TRUE, val |-> v, err |-> "none"]
Err(e) == [ok |-> FALSE, val |-> 0, err |-> e]

\* str::parse::<f32>
ParseF32(t) ==
    CASE t.k = "int" -> [ok |-> TRUE, val |-> F32(t.v * 100), err |-> "none"]
      [] t.k = "dec" -> [ok |-> TRUE, val |-> F32(t.v), err |-> "none"]
      [] t.k = "nan" -> [ok |-> TRUE, val |-> NaN, err |-> "none"]
      [] OTHER -> [ok |-> FALSE, val |-> NaN, err |-> "ParseFloat"]

\* str::parse::<i32>
ParseI32(t) == IF t.k = "int" THEN Ok(t.v) ELSE Err("ParseInt")

\* str::parse::<u32>
ParseU32(t) == IF t.k = "int" /\ t.v >= 0 THEN Ok(t.v) ELSE Err("ParseInt")

I8Min == -128
I8Max == 127

\* str::parse::<i8>
ParseI8(t) ==
    IF t.k = "int" /\ t.v >= I8Min /\ t.v <= I8Max THEN Ok(t.v) ELSE Err("ParseInt")

\* `x as u32` of an f32 given in hundredths, truncated: saturates below at 0, NaN is 0
F32AsU32(f) == IF f.nan \/ f.c < 0 THEN 0 ELSE f.c \div 100

\* f32::floor
F32Floor(f) == IF f.nan THEN NaN ELSE F32((f.c \div 100) * 100)

(***************************************************************************)
(* chrono::NaiveDate::from_ymd(y, m, d).and_hms(h, mi, 0): a NaiveDateTime *)
(* is kept as <<y, m, d, h, mi>>, ordered as chrono orders it.             *)
(***************************************************************************)
IsLeap(y) == (y % 4 = 0 /\ y % 100 # 0) \/ y % 400 = 0

DaysInMonth(y, m) ==
    CASE m \in {4, 6, 9, 11} -> 30
      [] m = 2 -> IF IsLeap(y) THEN 29 ELSE 28
      [] OTHER -> 31

\* from_ymd panics on an out-of-range date, and_hms on an out-of-range time
ValidYmd(y, m, d) == m \in 1..12 /\ d >= 1 /\ d <= DaysInMonth(y, m)
ValidHms(h, mi) == h < 24 /\ mi < 60

RECURSIVE LexLt(_, _, _)
LexLt(a, b, i) ==
    IF i > Len(a) THEN FALSE
    ELSE IF a[i] # b[i] THEN a[i] < b[i]
    ELSE LexLt(a, b, i + 1)

\* a variant of DateGt: >= for >
DateGt_OrEqual(a, b) == ~LexLt(a, b, 1)

\* NaiveDateTime's derived PartialOrd: a > b
DateGt(a, b) == LexLt(b, a, 1)


(***************************************************************************)
(* kp_data.rs: Entry and KpFile.                                           *)
(***************************************************************************)
NoDate == <<0, 0, 0, 0, 0>>
NoEntry == [date |-> NoDate, kp |-> NaN, ap |-> 0, d |-> 0]

EntryOk(e) == [st |-> "ok", err |-> "none", entry |-> e]
EntryErr(kind) == [st |-> "err", err |-> kind, entry |-> NoEntry]
EntryPanic == [st |-> "panic", err |-> "none", entry |-> NoEntry]

\* parts[i], 0-based as in the source
Part(parts, i) == parts[i + 1]

\* Entry's fields once parts[4], parts[0..2] have parsed and the date is built:
\* kp, ap and d are parsed in this order, the first failure returns
EntryFields(parts, date) ==
    LET kp == ParseF32(Part(parts, 7))
        ap == ParseI8(Part(parts, 8))
        d == ParseI8(Part(parts, 9))
    IN  IF ~kp.ok THEN EntryErr(kp.err)
        ELSE IF ~ap.ok THEN EntryErr(ap.err)
        ELSE IF ~d.ok THEN EntryErr(d.err)
        ELSE EntryOk([date |-> date, kp |-> kp.val, ap |-> ap.val, d |-> d.val])

\* impl FromStr for Entry
EntryFromStr(ln) ==
    LET parts == ln IN
    IF Len(parts) # 10 THEN EntryErr("Error")
    ELSE
    LET hp == ParseF32(Part(parts, 4)) IN
    IF ~hp.ok THEN EntryErr(hp.err)
    ELSE
    LET h == F32AsU32(F32Floor(hp.val))
        \* ((hp - h as f32) * 60.0) as u32
        m == F32AsU32(IF hp.val.nan THEN NaN ELSE F32((hp.val.c - h * 100) * 60))
        y == ParseI32(Part(parts, 0))
        mo == ParseU32(Part(parts, 1))
        dd == ParseU32(Part(parts, 2))
    IN  IF ~y.ok THEN EntryErr(y.err)
        ELSE IF ~mo.ok THEN EntryErr(mo.err)
        ELSE IF ~dd.ok THEN EntryErr(dd.err)
        ELSE IF ~ValidYmd(y.val, mo.val, dd.val) THEN EntryPanic
        ELSE IF ~ValidHms(h, m) THEN EntryPanic
        ELSE EntryFields(parts, <<y.val, mo.val, dd.val, h, m>>)

\* KpFile::new
KpFileNew == [entries |-> <<>>, last_final_idx |-> -1]

FileOk(f) == [st |-> "ok", err |-> "none", file |-> f]
FileErr(kind) == [st |-> "err", err |-> kind, file |-> KpFileNew]
FilePanic == [st |-> "panic", err |-> "none", file |-> KpFileNew]

\* line.starts_with("#") || line.is_empty(), on the trimmed line
Skipped(ln) == ln = <<>> \/ ln[1].k = "hash"

\* entry.kp < 0.0 || entry.ap < 0
Sentinel(entry) == F32Lt(entry.kp, F32(0)) \/ entry.ap < 0

\* a variant of Push: the index is taken after the push
Push_IdxAfterPush(file, entry) ==
    [entries |-> Append(file.entries, entry),
     last_final_idx |-> IF entry.d = 1 THEN Len(file.entries) + 1
                        ELSE file.last_final_idx]

\* if entry.d == 1 { last_final_idx = entries.len() }; entries.push(entry)
Push(file, entry) ==
    [entries |-> Append(file.entries, entry),
     last_final_idx |-> IF entry.d = 1 THEN Len(file.entries)
                        ELSE file.last_final_idx]

\* the loop of KpFile::from_str from line i (1-based) on
RECURSIVE FromStrLoop(_, _, _)
FromStrLoop(t, i, file) ==
    IF i > Len(t) THEN FileOk(file)
    ELSE IF Skipped(t[i]) THEN FromStrLoop(t, i + 1, file)
    ELSE LET r == EntryFromStr(t[i]) IN
         IF r.st = "panic" THEN FilePanic
         ELSE IF r.st = "err" THEN FileErr(r.err)
         ELSE IF Sentinel(r.entry) THEN FromStrLoop(t, i + 1, file)
         ELSE FromStrLoop(t, i + 1, Push(file, r.entry))

\* impl FromStr for KpFile
KpFileFromStr(t) == FromStrLoop(t, 1, KpFileNew)

(***************************************************************************)
(* Lines the texts of the model are made of.                               *)
(***************************************************************************)
\* "2022 08 <day> 00.0 01.50 0.0 0.0 <kp> <ap> <d>"
Row(day, kp, ap, d) ==
    <<TInt(2022), TInt(8), TInt(day), TDec(0), TDec(150), TDec(0), TDec(0), kp, ap, d>>

Day(n) == <<2022, 8, n, 1, 30>>

\* rows as the feed has them: kp 2.000 or -1.000, ap 7 or -1, flag 0 or 1
FeedRows ==
    {Row(1, kp, TInt(7), TInt(d)) : kp \in {TDec(200), TDec(-100), TNaN}, d \in {0, 1}}
    \cup {Row(1, TDec(200), TInt(-1), TInt(1))}

BlankLine == <<>>
CommentLine == <<THash, TWord>>
\* "Foobar"
ShortLine == <<TWord>>
\* ten tokens, kp not a number, ap the sentinel
WordKpLine == Row(1, TWord, TInt(-1), TInt(0))
\* ap 207 does not fit an i8
BigApLine == Row(1, TDec(200), TInt(207), TInt(0))
\* a word in an unused column
UnusedWordLine ==
    <<TInt(2022), TInt(8), TInt(1), TWord, TDec(150), TDec(0), TDec(0),
      TDec(200), TInt(7), TInt(1)>>
\* month 13, all tokens numeric
BadMonthLine ==
    <<TInt(2022), TInt(13), TInt(1), TDec(0), TDec(150), TDec(0), TDec(0),
      TDec(200), TInt(7), TInt(0)>>
\* month 13 and kp not a number
BadMonthWordKpLine ==
    <<TInt(2022), TInt(13), TInt(1), TDec(0), TDec(150), TDec(0), TDec(0),
      TWord, TInt(7), TInt(0)>>

SampleLines ==
    FeedRows \cup {BlankLine, CommentLine, ShortLine, WordKpLine, BigApLine,
                   UnusedWordLine, BadMonthLine, BadMonthWordKpLine}

(***************************************************************************)
(* SpecParse: a text is parsed.                                            *)
(***************************************************************************)
InitParse ==
    /\ text \in SeqsUpTo(SampleLines, MaxLines)
    /\ parsed = NotRun

ParseText ==
    /\ parsed = NotRun
    /\ parsed' = KpFileFromStr(text)
    /\ UNCHANGED text
    /\ UNCHANGED <<varsDiff, varsEscape, varsMeas, varsMain>>


(***************************************************************************)
(* KpFile::get_new_entries.                                                *)
(***************************************************************************)
SliceOk(sl) == [st |-> "ok", slice |-> sl]
SlicePanic == [st |-> "panic", slice |-> <<>>]

\* the for loop over idx in lo..hi (hi excluded, 0-based): the slice from the
\* first entry later than date, or the empty slice
RECURSIVE ScanFrom(_, _, _, _)
ScanFrom(entries, date, idx, hi) ==
    IF idx >= hi THEN <<>>
    ELSE IF DateGt(entries[idx + 1].date, date) THEN SliceFrom(entries, idx)
    ELSE ScanFrom(entries, date, idx + 1, hi)

\* &self.entries.len()-1, the end of the range the loop scans
ScanEnd(len) == len - 1

\* get_new_entries(&self, previous).  With no entry in self, len()-1
\* underflows: a debug build panics at the subtraction, a release build wraps
\* to usize::MAX and panics at self.entries[0]
GetNewEntries(self, prev) ==
    IF Len(prev.entries) = 0 THEN SliceOk(self.entries)
    ELSE IF Len(self.entries) = 0 THEN SlicePanic
    ELSE SliceOk(ScanFrom(self.entries, Last(prev.entries).date, 0,
                          ScanEnd(Len(self.entries))))

(***************************************************************************)
(* SpecDiff: get_new_entries on two snapshots.  The snapshots are what     *)
(* KpFile::from_str can build: any sequence of entries that are not        *)
(* sentinels, in any order of date.                                        *)
(***************************************************************************)
\* last_final_idx as from_str leaves it
RECURSIVE FileOf(_, _)
FileOf(entries, n) ==
    IF n = 0 THEN KpFileNew ELSE Push(FileOf(entries, n - 1), entries[n])

CurEntries == [date : {Day(n) : n \in 1..MaxDay}, kp : {F32(200)}, ap : {7}, d : {0, 1}]
PrevEntries == [date : {Day(n) : n \in 1..MaxDay}, kp : {F32(300)}, ap : {15}, d : {0}]

InitDiff ==
    /\ current \in {FileOf(es, Len(es)) : es \in SeqsUpTo(CurEntries, MaxLen)}
    /\ previous \in {FileOf(es, Len(es)) : es \in SeqsUpTo(PrevEntries, MaxPrevLen)}
    /\ newEntries = NotRun

Diff ==
    /\ newEntries = NotRun
    /\ newEntries' = GetNewEntries(current, previous)
    /\ UNCHANGED <<current, previous>>
    /\ UNCHANGED <<varsParse, varsEscape, varsMeas, varsMain>>

(***************************************************************************)
(* influx.rs: escape.  A string is a sequence of characters.               *)
(***************************************************************************)
BS == "\\"
DQ == "\""
NL == "\n"
CR == "\r"
TAB == "\t"
SP == " "

\* one arm of the match on c
EscapeChar(c, equal, commas, spaces, double_quotes) ==
    CASE c = NL -> <<BS, "n">>
      [] c = CR -> <<BS, "r">>
      [] c = TAB -> <<BS, "t">>
      [] c = "=" -> IF equal THEN <<BS, "=">> ELSE <<>>
      [] c = SP -> IF spaces THEN <<BS, SP>> ELSE <<>>
      [] c = "," -> IF commas THEN <<BS, ",">> ELSE <<>>
      [] c = DQ -> IF double_quotes THEN <<BS, DQ>> ELSE <<>>
      [] OTHER -> <<c>>

RECURSIVE EscapeLoop(_, _, _, _, _, _)
EscapeLoop(value, i, equal, commas, spaces, double_quotes) ==
    IF i > Len(value) THEN <<>>
    ELSE EscapeChar(value[i], equal, commas, spaces, double_quotes)
         \o EscapeLoop(value, i + 1, equal, commas, spaces, double_quotes)

\* escape(value, equal, commas, spaces, double_quotes, str_escape); writing to a
\* String never fails, the result is always Ok
Escape(value, equal, commas, spaces, double_quotes, str_escape) ==
    LET body == EscapeLoop(value, 1, equal, commas, spaces, double_quotes) IN
    IF str_escape THEN <<DQ>> \o body \o <<DQ>> ELSE body

(***************************************************************************)
(* SpecEscape: escape on a string and five flags.                          *)
(***************************************************************************)
Chars == {"a", BS, "=", ",", SP, DQ, NL, CR, TAB}

InitEscape ==
    /\ escIn \in [value : SeqsUpTo(Chars, MaxStr), equal : BOOLEAN, commas : BOOLEAN,
                  spaces : BOOLEAN, double_quotes : BOOLEAN, str_escape : BOOLEAN]
    /\ escOut = NotRun

DoEscape ==
    /\ escOut = NotRun
    /\ escOut' = [st |-> "ok",
                  s |-> Escape(escIn.value, escIn.equal, escIn.commas, escIn.spaces,
                               escIn.double_quotes, escIn.str_escape)]
    /\ UNCHANGED escIn
    /\ UNCHANGED <<varsParse, varsDiff, varsMeas, varsMain>>


(***************************************************************************)
(* influx.rs: Value and its Display.                                       *)
(***************************************************************************)
VFloat(f) == [t |-> "Float", f |-> f, n |-> 0, s |-> <<>>]
VSigned(n) == [t |-> "Signed", f |-> NaN, n |-> n, s |-> <<>>]
VUnsigned(n) == [t |-> "Unsigned", f |-> NaN, n |-> n, s |-> <<>>]
VString(s) == [t |-> "String", f |-> NaN, n |-> 0, s |-> s]
VTrue == [t |-> "True", f |-> NaN, n |-> 0, s |-> <<>>]
VFalse == [t |-> "False", f |-> NaN, n |-> 0, s |-> <<>>]

DigitChar(d) == <<"0", "1", "2", "3", "4", "5", "6", "7", "8", "9">>[d + 1]

RECURSIVE Digits(_)
Digits(n) == IF n < 10 THEN <<DigitChar(n)>> ELSE Digits(n \div 10) \o <<DigitChar(n % 10)>>

\* Display of an integer
IntStr(n) == IF n < 0 THEN <<"-">> \o Digits(-n) ELSE Digits(n)

\* Display of an f32 held in hundredths: the shortest decimal that reads back,
\* with no decimal point when the value is whole
F32Str(f) ==
    IF f.nan THEN <<"N", "a", "N">>
    ELSE LET a == IF f.c < 0 THEN -f.c ELSE f.c
             frac == a % 100
             sign == IF f.c < 0 THEN <<"-">> ELSE <<>>
         IN  sign \o Digits(a \div 100)
             \o (IF frac = 0 THEN <<>>
                 ELSE IF frac % 10 = 0 THEN <<".", DigitChar(frac \div 10)>>
                 ELSE <<".", DigitChar(frac \div 10), DigitChar(frac % 10)>>)

\* impl Display for Value
ValueStr(v) ==
    CASE v.t = "Float" -> F32Str(v.f)
      [] v.t = "Signed" -> IntStr(v.n) \o <<"i">>
      [] v.t = "Unsigned" -> IntStr(v.n) \o <<"u">>
      [] v.t = "String" -> Escape(v.s, FALSE, FALSE, FALSE, TRUE, TRUE)
      [] v.t = "True" -> <<"t", "r", "u", "e">>
      [] OTHER -> <<"f", "a", "l", "s", "e">>

(***************************************************************************)
(* String order and the two maps of a Measurement.                         *)
(***************************************************************************)
\* the characters of the model in code point order
CodeOrder ==
    <<TAB, NL, CR, SP, DQ, ",", "-", ".", "0", "1", "2", "3", "4", "5", "6", "7",
      "8", "9", "=", "N", BS, "_", "a", "b", "c", "d", "e", "f", "i", "k", "l",
      "n", "o", "p", "r", "s", "t", "u", "v", "y">>

Code(c) == CHOOSE i \in 1..Len(CodeOrder) : CodeOrder[i] = c

\* String's Ord: by code point, a proper prefix first
RECURSIVE StrLt(_, _, _)
StrLt(a, b, i) ==
    IF i > Len(a) THEN i <= Len(b)
    ELSE IF i > Len(b) THEN FALSE
    ELSE IF a[i] # b[i] THEN Code(a[i]) < Code(b[i])
    ELSE StrLt(a, b, i + 1)

\* iteration of a BTreeMap: its keys ascending
RECURSIVE BTreeKeys(_)
BTreeKeys(keys) ==
    IF keys = {} THEN <<>>
    ELSE LET least == CHOOSE k \in keys : \A o \in keys \ {k} : StrLt(k, o, 1)
         IN  <<least>> \o BTreeKeys(keys \ {least})

\* iteration of a HashMap: its keys in the order the hasher of this process
\* puts them, order being a sequence of all keys
HashKeys(keys, order) == SelectSeq(order, LAMBDA k : k \in keys)

\* map.insert(key, value)
Insert(map, key, value) ==
    [k \in DOMAIN map \cup {key} |-> IF k = key THEN value ELSE map[k]]

IsSpace(c) == c \in {SP, TAB, NL, CR}

RECURSIVE TrimStart(_)
TrimStart(s) == IF s # <<>> /\ IsSpace(Head(s)) THEN TrimStart(Tail(s)) ELSE s

RECURSIVE TrimEnd(_)
TrimEnd(s) ==
    IF s # <<>> /\ IsSpace(Last(s)) THEN TrimEnd(SubSeq(s, 1, Len(s) - 1)) ELSE s

\* str::trim
Trim(s) == TrimEnd(TrimStart(s))

(***************************************************************************)
(* NaiveDateTime::timestamp: seconds since 1970-01-01 00:00:00.            *)
(***************************************************************************)
DaysFromCivil(y, m, d) ==
    LET yy == IF m <= 2 THEN y - 1 ELSE y
        era == yy \div 400
        yoe == yy - era * 400
        mp == IF m > 2 THEN m - 3 ELSE m + 9
        doy == (153 * mp + 2) \div 5 + d - 1
        doe == yoe * 365 + yoe \div 4 - yoe \div 100 + doy
    IN  era * 146097 + doe - 719468

Timestamp(date) ==
    DaysFromCivil(date[1], date[2], date[3]) * 86400 + date[4] * 3600 + date[5] * 60

(***************************************************************************)
(* influx.rs: Measurement.                                                 *)
(***************************************************************************)
NoTime == [some |-> FALSE, t |-> NoDate]

\* Measurement::new
MeasurementNew(name) ==
    [name |-> name, event_time |-> NoTime, values |-> <<>>, tags |-> <<>>]

\* Measurement::set_time
SetTime(m, time) == [m EXCEPT !.event_time = [some |-> TRUE, t |-> time]]

\* Measurement::add_value
AddValue(m, key, value, replace) ==
    IF replace \/ key \notin DOMAIN m.values
    THEN [m EXCEPT !.values = Insert(m.values, Trim(key), value)]
    ELSE m

\* Measurement::add_tag
AddTag(m, key, value, replace) ==
    IF replace \/ key \notin DOMAIN m.tags
    THEN [m EXCEPT !.tags = Insert(m.tags, Trim(key), value)]
    ELSE m

RECURSIVE TagsStr(_, _)
TagsStr(tags, keys) ==
    IF keys = <<>> THEN <<>>
    ELSE <<",">> \o Escape(Head(keys), TRUE, TRUE, TRUE, TRUE, FALSE) \o <<"=">>
         \o Escape(tags[Head(keys)], TRUE, TRUE, TRUE, TRUE, FALSE)
         \o TagsStr(tags, Tail(keys))

\* the loop over the fields: keys in iteration order, sep before each
RECURSIVE ValuesStr(_, _, _)
ValuesStr(values, keys, sep) ==
    IF keys = <<>> THEN <<>>
    ELSE sep \o Escape(Head(keys), TRUE, TRUE, TRUE, TRUE, FALSE) \o <<"=">>
         \o ValueStr(values[Head(keys)])
         \o ValuesStr(values, Tail(keys), <<",">>)

TimestampFormats == {"None", "Ms", "S", "Us", "Ns"}

TimeStr(event_time, timestamp_format) ==
    IF ~event_time.some \/ timestamp_format = "None" THEN <<>>
    ELSE LET ts == Timestamp(event_time.t)
             \* the event time has whole seconds: timestamp_millis, _micros and
             \* _nanos are timestamp() followed by 3, 6 and 9 zeros
             zeros == CASE timestamp_format = "S" -> 0
                        [] timestamp_format = "Ms" -> 3
                        [] timestamp_format = "Us" -> 6
                        [] OTHER -> 9
         IN  <<SP>> \o IntStr(ts) \o (IF ts = 0 THEN <<>> ELSE [i \in 1..zeros |-> "0"])

\* to_line_protocol with the fields taken in the order fieldKeys
LineOf(m, fieldKeys, timestamp_format) ==
    Escape(m.name, FALSE, TRUE, TRUE, TRUE, FALSE)
    \o TagsStr(m.tags, BTreeKeys(DOMAIN m.tags))
    \o ValuesStr(m.values, fieldKeys, <<SP>>)
    \o TimeStr(m.event_time, timestamp_format)

\* Measurement::to_line_protocol, in a process whose HashMap iterates in order
ToLineProtocol(m, timestamp_format, order) ==
    LineOf(m, HashKeys(DOMAIN m.values, order), timestamp_format)


\* impl From<&Entry> for Measurement (main.rs)
MeasurementFromEntry(e) ==
    LET m0 == MeasurementNew(<<"i", "o", "n", "o", "_", "a", "c", "t", "i", "v", "i", "t", "y">>)
        m1 == AddValue(m0, <<"k", "p">>, VFloat(e.kp), FALSE)
        m2 == AddValue(m1, <<"a", "p">>, VSigned(e.ap), FALSE)
        m3 == AddTag(m2, <<"d", "e", "f">>, IntStr(e.d), FALSE)
    IN  SetTime(m3, e.date)

(***************************************************************************)
(* SpecMeas: builder calls on one Measurement of one process, and          *)
(* to_line_protocol.                                                       *)
(***************************************************************************)
KeyArgs == {<<"k", "p">>, <<SP, "k", "p">>, <<"a", "p">>}
ValueArgs == {VFloat(F32(200)), VSigned(7), VString(<<"a", "=">>)}
TagKeyArgs == {<<"d", "e", "f">>, <<"b", SP>>}
TagValueArgs == {<<"1">>}
EntryArgs == {[date |-> Day(1), kp |-> F32(200), ap |-> 7, d |-> 1]}

\* every key a field map of the model can hold
FieldKeys == {Trim(k) : k \in KeyArgs}

Perms(S) == {p \in [1..Cardinality(S) -> S] : Range(p) = S}

NoCall == [n |-> 0, op |-> "none", key |-> <<>>, value |-> <<>>, replace |-> FALSE,
           before |-> MeasurementNew(<<>>)]

InitMeas ==
    /\ meas = MeasurementNew(<<"S", "i", "z", "e">>)
    /\ hashOrder \in Perms(FieldKeys)
    /\ inserted = <<>>
    /\ lastCall = NoCall
    /\ line = NotRun

\* the keys of the fields in the order of their first insertion
InsertedAfter(before, after) ==
    LET new == DOMAIN after.values \ DOMAIN before.values IN
    IF new = {} THEN inserted ELSE Append(inserted, CHOOSE k \in new : TRUE)

CallAddValue(key, value, replace) ==
    /\ lastCall.n < MaxCalls
    /\ meas' = AddValue(meas, key, value, replace)
    /\ inserted' = InsertedAfter(meas, meas')
    /\ lastCall' = [n |-> lastCall.n + 1, op |-> "add_value", key |-> key,
                    value |-> value, replace |-> replace, before |-> meas]
    /\ line' = NotRun
    /\ UNCHANGED hashOrder
    /\ UNCHANGED <<varsParse, varsDiff, varsEscape, varsMain>>

CallAddTag(key, value, replace) ==
    /\ lastCall.n < MaxCalls
    /\ meas' = AddTag(meas, key, value, replace)
    /\ lastCall' = [n |-> lastCall.n + 1, op |-> "add_tag", key |-> key,
                    value |-> value, replace |-> replace, before |-> meas]
    /\ line' = NotRun
    /\ UNCHANGED <<hashOrder, inserted>>
    /\ UNCHANGED <<varsParse, varsDiff, varsEscape, varsMain>>

CallSetTime(time) ==
    /\ lastCall.n < MaxCalls
    /\ meas' = SetTime(meas, time)
    /\ lastCall' = [n |-> lastCall.n + 1, op |-> "set_time", key |-> <<>>,
                    value |-> <<>>, replace |-> FALSE, before |-> meas]
    /\ line' = NotRun
    /\ UNCHANGED <<hashOrder, inserted>>
    /\ UNCHANGED <<varsParse, varsDiff, varsEscape, varsMain>>

\* let m: Measurement = entry.into()
CallFromEntry(e) ==
    /\ lastCall.n = 0
    /\ meas' = MeasurementFromEntry(e)
    /\ inserted' = <<<<"k", "p">>, <<"a", "p">>>>
    /\ lastCall' = [n |-> 1, op |-> "from_entry", key |-> <<>>,
                    value |-> <<>>, replace |-> FALSE, before |-> meas]
    /\ line' = NotRun
    /\ UNCHANGED hashOrder
    /\ UNCHANGED <<varsParse, varsDiff, varsEscape, varsMain>>

\* line holds what the last call of to_line_protocol returned, until the next
\* builder call
CallToLineProtocol(timestamp_format) ==
    /\ line' = [st |-> "ok", fmt |-> timestamp_format,
                s |-> ToLineProtocol(meas, timestamp_format, hashOrder)]
    /\ UNCHANGED <<meas, hashOrder, inserted, lastCall>>
    /\ UNCHANGED <<varsParse, varsDiff, varsEscape, varsMain>>


(***************************************************************************)
(* main.rs: main, one run after the other with the same arguments.  A run  *)
(* is a process of its own; what it leaves behind is the cache file.       *)
(*                                                                         *)
(* pc: start       before reqwest::blocking::get                           *)
(*     downloaded  con holds the text                                      *)
(*     parsed      kp_file is built                                        *)
(*     loaded      kp_cache is built                                       *)
(*     emit        new_entries is taken, the entries are being printed     *)
(*     done        main returned                                           *)
(*     failed      process::exit(1) or a panic                             *)
(***************************************************************************)
NoFile == [exists |-> FALSE, content |-> <<>>]
FileWith(t) == [exists |-> TRUE, content |-> t]

\* the feed: one row per time bin, the bins in ascending order, kp and ap
\* given or, for the latest bins, still the sentinel -1; or a text that is no
\* feed at all
FeedRow(day, kind) ==
    CASE kind = "valid" -> <<Row(day, TDec(200), TInt(7), TInt(0))>>
      [] kind = "sentinel" -> <<Row(day, TDec(-100), TInt(-1), TInt(0))>>
      [] OTHER -> <<>>

RECURSIVE FeedOf(_, _)
FeedOf(f, n) == IF n = 0 THEN <<>> ELSE FeedOf(f, n - 1) \o FeedRow(n, f[n])

Feeds ==
    {FeedOf(f, MaxDay) : f \in {g \in [1..MaxDay -> {"absent", "valid", "sentinel"}] :
        \A i, j \in 1..MaxDay : (i < j /\ g[i] = "sentinel") => g[j] # "valid"}}
    \cup {<<ShortLine>>}

Days == {Day(n) : n \in 1..MaxDay}

(***************************************************************************)
(* hist, the history of the runs:                                          *)
(*   cacheAtStart  the cache file as the current run found it              *)
(*   failedAt      the step the current run failed at, or "none"           *)
(*   emitted       per date, the lines printed for an entry of that date   *)
(*                 so far (measurements, or entries with --diagnostic-     *)
(*                 output): 0, 1, or 2 for two and more                    *)
(*   regressed     a run overwrote the cache with a feed whose last entry  *)
(*                 is older than the last entry of the cache               *)
(*   writeFailed   a run failed while writing the cache                    *)
(***************************************************************************)
HistInit ==
    [cacheAtStart |-> NoFile, failedAt |-> "none", emitted |-> [d \in Days |-> 0],
     regressed |-> FALSE, writeFailed |-> FALSE]

InitMain ==
    /\ pc = "start"
    /\ run = 0
    /\ cPath \in BOOLEAN
    /\ diag \in BOOLEAN
    /\ con = <<>>
    /\ kp_file = KpFileNew
    /\ kp_cache = KpFileNew
    /\ new_entries = <<>>
    /\ out = <<>>
    /\ cacheFile \in {NoFile, FileWith(<<ShortLine>>)}
    /\ hist = [HistInit EXCEPT !.cacheAtStart = cacheFile]

Failed(step) ==
    /\ pc' = "failed"
    /\ hist' = [hist EXCEPT !.failedAt = step]

\* the lines of out that print an entry
EntryLines(o) == SelectSeq(o, LAMBDA l : l.form # "info")

Info(what) == [form |-> "info", entry |-> NoEntry, what |-> what]

\* a new process: Args::parse, then get(&url) and res.text() succeed
Download(feed) ==
    /\ pc = "start"
    /\ run < MaxRuns
    /\ run' = run + 1
    /\ con' = feed
    /\ pc' = "downloaded"
    /\ UNCHANGED <<cPath, diag, kp_file, kp_cache, new_entries, out, cacheFile, hist>>
    /\ UNCHANGED <<varsParse, varsDiff, varsEscape, varsMeas>>

\* a new process: get(&url) or res.text() fails
DownloadFail ==
    /\ pc = "start"
    /\ run < MaxRuns
    /\ run' = run + 1
    /\ Failed("download")
    /\ UNCHANGED <<cPath, diag, con, kp_file, kp_cache, new_entries, out, cacheFile>>
    /\ UNCHANGED <<varsParse, varsDiff, varsEscape, varsMeas>>

\* con.parse::<KpFile>()
ParseFeed ==
    /\ pc = "downloaded"
    /\ LET r == KpFileFromStr(con) IN
       IF r.st = "ok"
       THEN /\ kp_file' = r.file
            /\ out' = IF diag THEN Append(out, Info("Downloaded Kp file")) ELSE out
            /\ pc' = "parsed"
            /\ UNCHANGED hist
       ELSE /\ Failed("parse")
            /\ UNCHANGED <<kp_file, out>>
    /\ UNCHANGED <<run, cPath, diag, con, kp_cache, new_entries, cacheFile>>
    /\ UNCHANGED <<varsParse, varsDiff, varsEscape, varsMeas>>

\* the cache is read and parsed, or there is none
LoadCache ==
    /\ pc = "parsed"
    /\ IF cPath /\ cacheFile.exists
       THEN LET r == KpFileFromStr(cacheFile.content) IN
            IF r.st = "ok"
            THEN /\ kp_cache' = r.file
                 /\ pc' = "loaded"
                 /\ UNCHANGED hist
            ELSE /\ Failed("cache_parse")
                 /\ UNCHANGED kp_cache
       ELSE /\ kp_cache' = KpFileNew
            /\ pc' = "loaded"
            /\ UNCHANGED hist
    /\ UNCHANGED <<run, cPath, diag, con, kp_file, new_entries, out, cacheFile>>
    /\ UNCHANGED <<varsParse, varsDiff, varsEscape, varsMeas>>

\* fs::read_to_string(&c_path) fails
CacheReadFail ==
    /\ pc = "parsed"
    /\ cPath /\ cacheFile.exists
    /\ Failed("cache_read")
    /\ UNCHANGED <<run, cPath, diag, con, kp_file, kp_cache, new_entries, out, cacheFile>>
    /\ UNCHANGED <<varsParse, varsDiff, varsEscape, varsMeas>>

\* kp_file.get_new_entries(&kp_cache)
TakeNewEntries ==
    /\ pc = "loaded"
    /\ LET r == GetNewEntries(kp_file, kp_cache) IN
       IF r.st = "ok"
       THEN /\ new_entries' = r.slice
            /\ out' = IF diag THEN Append(out, Info("Cached Kp file")) ELSE out
            /\ pc' = "emit"
            /\ UNCHANGED hist
       ELSE /\ Failed("diff")
            /\ UNCHANGED <<new_entries, out>>
    /\ UNCHANGED <<run, cPath, diag, con, kp_file, kp_cache, cacheFile>>
    /\ UNCHANGED <<varsParse, varsDiff, varsEscape, varsMeas>>

\* one turn of the loop over new_entries: println of the entry, or of the
\* Measurement made from it
Emit ==
    /\ pc = "emit"
    /\ Len(EntryLines(out)) < Len(new_entries)
    /\ LET e == new_entries[Len(EntryLines(out)) + 1] IN
       /\ out' = Append(out, [form |-> IF diag THEN "entry" ELSE "measurement",
                              entry |-> e, what |-> ""])
       /\ hist' = [hist EXCEPT !.emitted[e.date] = IF @ < 2 THEN @ + 1 ELSE @]
    /\ UNCHANGED <<pc, run, cPath, diag, con, kp_file, kp_cache, new_entries, cacheFile>>
    /\ UNCHANGED <<varsParse, varsDiff, varsEscape, varsMeas>>

\* the watermark goes back: the feed written ends before the cache it replaces
Regresses ==
    /\ kp_cache.entries # <<>>
    /\ kp_file.entries # <<>>
    /\ LexLt(Last(kp_file.entries).date, Last(kp_cache.entries).date, 1)

\* a variant of WriteCache: the cache is written while the loop still runs
WriteCache_BeforeLoopEnd ==
    /\ pc = "emit"
    /\ cPath
    /\ cacheFile' = FileWith(con)
    /\ hist' = [hist EXCEPT !.regressed = @ \/ Regresses]
    /\ UNCHANGED <<pc, run, cPath, diag, con, kp_file, kp_cache, new_entries, out>>
    /\ UNCHANGED <<varsParse, varsDiff, varsEscape, varsMeas>>

\* the loop is over: fs::write(&c_path, &con) when a cache path is given
WriteCache ==
    /\ pc = "emit"
    /\ Len(EntryLines(out)) = Len(new_entries)
    /\ pc' = "done"
    /\ IF cPath
       THEN /\ cacheFile' = FileWith(con)
            /\ hist' = [hist EXCEPT !.regressed = @ \/ Regresses]
       ELSE UNCHANGED <<cacheFile, hist>>
    /\ UNCHANGED <<run, cPath, diag, con, kp_file, kp_cache, new_entries, out>>
    /\ UNCHANGED <<varsParse, varsDiff, varsEscape, varsMeas>>

\* fs::write fails: the file could not be created and is as it was, or it was
\* created (truncated) and the text could not be written
WriteCacheFail ==
    /\ pc = "emit"
    /\ Len(EntryLines(out)) = Len(new_entries)
    /\ cPath
    /\ cacheFile' \in {cacheFile, FileWith(<<>>)}
    /\ pc' = "failed"
    /\ hist' = [hist EXCEPT !.failedAt = "write", !.writeFailed = TRUE]
    /\ UNCHANGED <<run, cPath, diag, con, kp_file, kp_cache, new_entries, out>>
    /\ UNCHANGED <<varsParse, varsDiff, varsEscape, varsMeas>>

\* the process is gone, and what it held with it; the cache file stays
Exit ==
    /\ pc \in {"done", "failed"}
    /\ pc' = "start"
    /\ con' = <<>>
    /\ kp_file' = KpFileNew
    /\ kp_cache' = KpFileNew
    /\ new_entries' = <<>>
    /\ out' = <<>>
    /\ hist' = [hist EXCEPT !.cacheAtStart = cacheFile, !.failedAt = "none"]
    /\ UNCHANGED <<run, cPath, diag, cacheFile>>
    /\ UNCHANGED <<varsParse, varsDiff, varsEscape, varsMeas>>

(***************************************************************************)
(* The specifications.  Each holds the variables of the others still.      *)
(***************************************************************************)
IdleParse == text = <<>> /\ parsed = NotRun
IdleDiff == current = KpFileNew /\ previous = KpFileNew /\ newEntries = NotRun
IdleEscape == escIn = <<>> /\ escOut = NotRun
IdleMeas ==
    /\ meas = MeasurementNew(<<>>)
    /\ hashOrder = <<>>
    /\ inserted = <<>>
    /\ lastCall = NoCall
    /\ line = NotRun
IdleMain ==
    /\ pc = "off"
    /\ run = 0
    /\ cPath = FALSE
    /\ diag = FALSE
    /\ con = <<>>
    /\ kp_file = KpFileNew
    /\ kp_cache = KpFileNew
    /\ new_entries = <<>>
    /\ out = <<>>
    /\ cacheFile = NoFile
    /\ hist = HistInit

InitSpecParse == InitParse /\ IdleDiff /\ IdleEscape /\ IdleMeas /\ IdleMain
NextParse == ParseText
SpecParse == InitSpecParse /\ [][NextParse]_vars

InitSpecDiff == IdleParse /\ InitDiff /\ IdleEscape /\ IdleMeas /\ IdleMain
NextDiff == Diff
SpecDiff == InitSpecDiff /\ [][NextDiff]_vars

InitSpecEscape == IdleParse /\ IdleDiff /\ InitEscape /\ IdleMeas /\ IdleMain
NextEscape == DoEscape
SpecEscape == InitSpecEscape /\ [][NextEscape]_vars

InitSpecMeas == IdleParse /\ IdleDiff /\ IdleEscape /\ InitMeas /\ IdleMain
NextMeas ==
    \/ \E key \in KeyArgs, value \in ValueArgs, replace \in BOOLEAN :
         CallAddValue(key, value, replace)
    \/ \E key \in TagKeyArgs, value \in TagValueArgs, replace \in BOOLEAN :
         CallAddTag(key, value, replace)
    \/ \E time \in {Day(1)} : CallSetTime(time)
    \/ \E e \in EntryArgs : CallFromEntry(e)
    \/ \E timestamp_format \in TimestampFormats : CallToLineProtocol(timestamp_format)
SpecMeas == InitSpecMeas /\ [][NextMeas]_vars

Init == IdleParse /\ IdleDiff /\ IdleEscape /\ IdleMeas /\ InitMain
Next ==
    \/ \E feed \in Feeds : Download(feed)
    \/ DownloadFail
    \/ ParseFeed
    \/ LoadCache
    \/ CacheReadFail
    \/ TakeNewEntries
    \/ Emit
    \/ WriteCache
    \/ WriteCacheFail
    \/ Exit
Spec == Init /\ [][Next]_vars


(***************************************************************************)
(* Properties of get_new_entries (SpecDiff).                               *)
(***************************************************************************)
Ascending(entries) ==
    \A i \in 1..(Len(entries) - 1) : ~DateGt(entries[i].date, entries[i + 1].date)

\* positions (1-based) of the entries of the current snapshot later than the
\* last entry of the previous one
Newer(cur, prev) ==
    {i \in 1..Len(cur.entries) : DateGt(cur.entries[i].date, Last(prev.entries).date)}

FirstNewer(cur, prev) ==
    CHOOSE i \in Newer(cur, prev) : \A j \in Newer(cur, prev) : i <= j

\* C3: for ascending snapshots, previous not empty, with an entry of current
\* later than previous's last entry, get_new_entries returns the suffix of
\* current that starts at the first such entry, also when that entry is the
\* last one of current.
C3_SuffixFromFirstNewer ==
    (/\ newEntries.st # "notrun"
     /\ previous.entries # <<>>
     /\ Ascending(current.entries)
     /\ Ascending(previous.entries)
     /\ Newer(current, previous) # {})
    => newEntries = SliceOk(SubSeq(current.entries, FirstNewer(current, previous),
                                   Len(current.entries)))

\* C4: for a previous snapshot that is not empty and a current one with no entry
\* later than previous's last entry (current may have no entry at all),
\* get_new_entries returns the empty slice and does not abort.
C4_NoneNewIsEmpty ==
    (/\ newEntries.st # "notrun"
     /\ previous.entries # <<>>
     /\ Newer(current, previous) = {})
    => newEntries = SliceOk(<<>>)

(***************************************************************************)
(* Properties of escape (SpecEscape).                                      *)
(***************************************************************************)
\* the image of one character as C5 gives it
ClaimedChar(c, in) ==
    CASE c = NL -> <<BS, "n">>
      [] c = CR -> <<BS, "r">>
      [] c = TAB -> <<BS, "t">>
      [] c = "=" /\ in.equal -> <<BS, c>>
      [] c = "," /\ in.commas -> <<BS, c>>
      [] c = SP /\ in.spaces -> <<BS, c>>
      [] c = DQ /\ in.double_quotes -> <<BS, c>>
      [] OTHER -> <<c>>

RECURSIVE ClaimedBody(_, _)
ClaimedBody(value, in) ==
    IF value = <<>> THEN <<>>
    ELSE ClaimedChar(Head(value), in) \o ClaimedBody(Tail(value), in)

\* C5: escape returns the image of the input character by character: newline,
\* carriage return and tab as \n, \r, \t; '=', ',', space and '"' behind a
\* backslash when their flag is set and unchanged otherwise; every other
\* character unchanged; the whole in double quotes exactly when str_escape is
\* set.  No character is dropped.
C5_EscapeImage ==
    escOut.st # "notrun" =>
        escOut.s = IF escIn.str_escape
                   THEN <<DQ>> \o ClaimedBody(escIn.value, escIn) \o <<DQ>>
                   ELSE ClaimedBody(escIn.value, escIn)

(***************************************************************************)
(* Properties of Measurement (SpecMeas).                                   *)
(***************************************************************************)
\* the map the last call worked on, before and after it
MapBefore == IF lastCall.op = "add_value" THEN lastCall.before.values ELSE lastCall.before.tags
MapAfter == IF lastCall.op = "add_value" THEN meas.values ELSE meas.tags

\* C6: a call of add_value or add_tag with replace = false whose trimmed key is
\* present leaves the value under that key as it was; a call with
\* replace = true leaves the new value under the trimmed key.
C6_ReplaceFlag ==
    lastCall.op \in {"add_value", "add_tag"} =>
        LET k == Trim(lastCall.key) IN
        /\ (~lastCall.replace /\ k \in DOMAIN MapBefore) =>
               (k \in DOMAIN MapAfter /\ MapAfter[k] = MapBefore[k])
        /\ lastCall.replace =>
               (k \in DOMAIN MapAfter /\ MapAfter[k] = lastCall.value)

\* C7: to_line_protocol emits the fields in the order their keys were first
\* inserted, the first behind one space and each further one behind a comma,
\* whatever the process (the adapter's kp then ap always come out as
\* kp=..,ap=..).
C7_FieldsInInsertionOrder ==
    line.st # "notrun" => line.s = LineOf(meas, inserted, line.fmt)

(***************************************************************************)
(* Properties of KpFile::from_str (SpecParse).                             *)
(***************************************************************************)
\* the entries of the lines of t that are not skipped, in file order
RECURSIVE Rows(_)
Rows(t) ==
    IF t = <<>> THEN <<>>
    ELSE IF Skipped(Head(t)) THEN Rows(Tail(t))
    ELSE <<EntryFromStr(Head(t)).entry>> \o Rows(Tail(t))

\* 0-based position of the last entry with flag 1, or -1
LastFinal(entries) ==
    LET finals == {i \in 1..Len(entries) : entries[i].d = 1} IN
    IF finals = {} THEN -1
    ELSE (CHOOSE i \in finals : \A j \in finals : j <= i) - 1

\* C8 as claimed: a text that parses gives exactly the rows with kp >= 0 and
\* ap >= 0, in file order, and last_final_idx is the position among them of the
\* last one with flag 1, or -1.
C8_ValidRowsOnly ==
    parsed.st = "ok" =>
        LET kept == SelectSeq(Rows(text), LAMBDA e : F32Ge(e.kp, F32(0)) /\ e.ap >= 0) IN
        /\ parsed.file.entries = kept
        /\ parsed.file.last_final_idx = LastFinal(kept)

\* C8 as amended: a text that parses gives exactly the rows for which neither
\* kp < 0 nor ap < 0 holds (a row whose kp is NaN is kept), in file order, and
\* last_final_idx is the position among them of the last one with flag 1, or -1.
C8_NoNegativeRows ==
    parsed.st = "ok" =>
        LET kept == SelectSeq(Rows(text), LAMBDA e : ~F32Lt(e.kp, F32(0)) /\ ~(e.ap < 0)) IN
        /\ parsed.file.entries = kept
        /\ parsed.file.last_final_idx = LastFinal(kept)

\* a final row, a sentinel row with flag 1, a final row: the snapshot holds the
\* two final rows and last_final_idx is 1
C8_Witness ==
    /\ parsed.st = "ok"
    /\ Len(Rows(text)) = 3
    /\ Rows(text)[1].d = 1 /\ ~Sentinel(Rows(text)[1])
    /\ Rows(text)[2].d = 1 /\ Sentinel(Rows(text)[2])
    /\ Rows(text)[3].d = 1 /\ ~Sentinel(Rows(text)[3])
    /\ Len(parsed.file.entries) = 2
    /\ parsed.file.last_final_idx = 1

\* the parsers Entry::from_str hands each token to
Parsers(ln) ==
    <<ParseI32(Part(ln, 0)), ParseU32(Part(ln, 1)), ParseU32(Part(ln, 2)),
      ParseF32(Part(ln, 4)), ParseF32(Part(ln, 7)), ParseI8(Part(ln, 8)),
      ParseI8(Part(ln, 9))>>

\* a line that is neither blank nor a comment and has not 10 tokens, or a token
\* its parser does not take
Malformed(ln) ==
    /\ ~Skipped(ln)
    /\ Len(ln) # 10 \/ \E i \in 1..7 : ~Parsers(ln)[i].ok

\* the errors such a line can give
ErrorsOf(ln) ==
    IF Len(ln) # 10 THEN {"Error"} ELSE {Parsers(ln)[i].err : i \in 1..7} \ {"none"}

\* C9: when a line that is neither blank nor a comment does not parse as an
\* Entry (not 10 tokens, or a token that is no number), from_str returns that
\* line's error (the first such line's) and no snapshot, sentinel values on the
\* line or valid lines before it notwithstanding.
C9_AllOrNothing ==
    (parsed.st # "notrun" /\ \E i \in 1..Len(text) : Malformed(text[i])) =>
        LET first == CHOOSE i \in 1..Len(text) :
                        /\ Malformed(text[i])
                        /\ \A j \in 1..(i - 1) : ~Malformed(text[j])
        IN  parsed.st = "err" /\ parsed.err \in ErrorsOf(text[first])

(***************************************************************************)
(* Properties of main (Spec).                                              *)
(***************************************************************************)
\* the entries printed by the current run, in order
Printed(o) == [i \in 1..Len(EntryLines(o)) |-> EntryLines(o)[i].entry]

\* C1: at the end of a successful run with a cache file that prints
\* measurements, every entry of the feed that is later than the last entry of
\* the cache the run started from (every entry, when the cache held none) has
\* been printed as a measurement, by this run or an earlier one; in particular
\* the only such entry.
C1_NoNewRecordLost ==
    (pc = "done" /\ cPath /\ ~diag) =>
        \A i \in 1..Len(kp_file.entries) :
            (kp_cache.entries = <<>>
             \/ DateGt(kp_file.entries[i].date, Last(kp_cache.entries).date))
            => hist.emitted[kp_file.entries[i].date] >= 1

C10_CacheFrame ==
    /\ pc \in {"downloaded", "parsed", "loaded", "emit"} => cacheFile = hist.cacheAtStart
    /\ (pc = "failed" /\ hist.failedAt # "write") => cacheFile = hist.cacheAtStart
    /\ cacheFile # hist.cacheAtStart => Printed(out) = new_entries
    /\ (pc = "done" /\ cPath) => (cacheFile = FileWith(con) /\ Printed(out) = new_entries)

\* a run aborted inside get_new_entries and the cache, which holds entries, is
\* as the run found it
C10_Witness ==
    /\ pc = "failed"
    /\ hist.failedAt = "diff"
    /\ cacheFile.exists
    /\ kp_cache.entries # <<>>
    /\ cacheFile = hist.cacheAtStart

=============================================================================
